---- MODULE Spec2Model ----
(***************************************************************************)
(* The workshop repository as state machines:                              *)
(*   - the docker-compose project (services, published ports, mounts),     *)
(*   - the Airflow example DAGs of the introduction notebook,              *)
(*   - the DVC notebook and the Kedro exercise run as linear scripts,       *)
(*   - the Kedro project of the exercise and the runs of its pipelines.    *)
(***************************************************************************)
EXTENDS Integers, Sequences, FiniteSets, TLC

VARIABLES
    container,   \* compose: service -> "down" | "running" | "failed"
    store,       \* compose: storage location -> file content (0 = no file)
    lastWriter,  \* compose: who wrote last ("none", "host" or a service)
    parsePc,     \* airflow: next statement of the DAG file (0 = import error)
    dagTasks,    \* airflow: task ids the DAG file has defined so far
    edges,       \* airflow: <<upstream, downstream>> pairs set so far
    run,         \* airflow: the current DAG run
    taskState,   \* airflow: task id -> state of its instance in this run
    tries,       \* airflow: task id -> tries started in this run
    fileExists,  \* airflow: the file at the sensor's filepath exists
    fileSeen,    \* airflow: the file has existed at some time
    xcom,        \* airflow: <<run, task id, value>> triples pushed
    pulled,      \* airflow: run -> what bar got from xcom_pull
    nb,          \* notebook: the notebook being run top to bottom
    pc,          \* notebook: index of the next command of its script
    halted,      \* notebook: a cell raised and the run stopped
    cwd,         \* notebook: the kernel's working directory
    dirs,        \* notebook: the directories that exist
    repo,        \* notebook: [git, dvc, remote]: what the project's repository has
    files,       \* notebook: project file -> version of its content (0 = absent)
    lock,        \* notebook: stage -> the versions dvc.lock records (<<>> = no stage)
    cache,       \* notebook: <<file, version>> objects of .dvc/cache
    remoteStore, \* notebook: <<file, version>> objects of the default remote
    report,      \* notebook: [ok, statusC, status, repro]: what the last commands reported
    reruns,      \* notebook: times the notebook was started again from its top
    project,     \* kedro: [pipelines, hooks, catalog, parameters]: versions of the project's files
    session,     \* kedro: "idle" | "running" | "succeeded" | "failed"
    selected,    \* kedro: the pipeline name the run was started with
    parallel,    \* kedro: the run was started with -p (ParallelRunner)
    nodeState,   \* kedro: node name -> "none" | "pending" | "running" | "done" | "failed"
    memory,      \* kedro: datasets the run holds in memory
    stored,      \* kedro: catalog datasets whose file exists
    saves,       \* kedro: dataset -> times the run has saved it
    sessions     \* kedro: kedro run invocations so far

composeVars == <<container, store, lastWriter>>
airflowVars ==
    <<parsePc, dagTasks, edges, run, taskState, tries, fileExists, fileSeen, xcom, pulled>>
notebookVars ==
    <<nb, pc, halted, cwd, dirs, repo, files, lock, cache, remoteStore, report, reruns>>
kedroVars ==
    <<project, session, selected, parallel, nodeState, memory, stored, saves, sessions>>
vars == <<composeVars, airflowVars, notebookVars, kedroVars>>

(***************************************************************************)
(* docker-compose.yml                                                      *)
(***************************************************************************)

\* Largest file content a write may store (0 stands for "no such file").
MaxContent == 1

Services == {"jupyter", "airflow"}

\* ports: HOST:CONTAINER pairs of each service.
JupyterPorts == {<<8888, 8888>>, <<4141, 4141>>, <<5000, 5000>>, <<7777, 7777>>}

AirflowPortsClash == {<<8888, 8080>>}

AirflowPorts == {<<8080, 8080>>}

Ports(s) == IF s = "jupyter" THEN JupyterPorts ELSE AirflowPorts

HostPorts(s) == {pp[1] : pp \in Ports(s)}

\* The mount point of the named volume in both services.
WorkspaceTarget == <<"workshop", "workspace">>

\* volumes: of each service; a bind mount's source is a path of the host
\* below the compose file's directory, a volume mount's source names a volume.
JupyterMounts ==
    { [type |-> "bind", source |-> <<"notebooks">>,
       target |-> <<"workshop", "notebooks">>],
      [type |-> "volume", source |-> <<"workspace">>,
       target |-> WorkspaceTarget] }

AirflowMountsOwnVolume ==
    { [type |-> "bind", source |-> <<"notebooks", "airflow", "dags">>,
       target |-> <<"usr", "local", "airflow", "dags">>],
      [type |-> "bind", source |-> <<"notebooks", "airflow", "exercise-dataset-airflow">>,
       target |-> <<"exercise-dataset-airflow">>],
      [type |-> "volume", source |-> <<"airflow-workspace">>,
       target |-> WorkspaceTarget] }

AirflowMountsDagsElsewhere ==
    { [type |-> "bind", source |-> <<"notebooks", "airflow", "dags">>,
       target |-> <<"usr", "local", "airflow">>],
      [type |-> "bind", source |-> <<"notebooks", "airflow", "exercise-dataset-airflow">>,
       target |-> <<"exercise-dataset-airflow">>],
      [type |-> "volume", source |-> <<"workspace">>,
       target |-> WorkspaceTarget] }

AirflowMounts ==
    { [type |-> "bind", source |-> <<"notebooks", "airflow", "dags">>,
       target |-> <<"usr", "local", "airflow", "dags">>],
      [type |-> "bind", source |-> <<"notebooks", "airflow", "exercise-dataset-airflow">>,
       target |-> <<"exercise-dataset-airflow">>],
      [type |-> "volume", source |-> <<"workspace">>,
       target |-> WorkspaceTarget] }

Mounts(s) == IF s = "jupyter" THEN JupyterMounts ELSE AirflowMounts

\* The top-level volumes: section.
NamedVolumes == {<<"workspace">>}

IsPrefix(a, b) ==
    /\ Len(a) <= Len(b)
    /\ \A i \in 1..Len(a) : a[i] = b[i]

Rest(a, b) == SubSeq(b, Len(a) + 1, Len(b))

\* The mounts of service s that cover container path p.
Covering(s, p) == {m \in Mounts(s) : IsPrefix(m.target, p)}

\* The storage a container path of service s resolves to: the mount with the
\* longest target above the path, otherwise the container's own layer.
Resolve(s, p) ==
    IF Covering(s, p) = {}
    THEN [kind |-> "layer", path |-> <<s>> \o p]
    ELSE LET m == CHOOSE x \in Covering(s, p) :
                      \A y \in Covering(s, p) : Len(y.target) <= Len(x.target)
         IN  [kind |-> IF m.type = "bind" THEN "host" ELSE "volume",
              path |-> m.source \o Rest(m.target, p)]

FileNames == {"a.py", "b.py"}

\* The repository's folder of DAG files, as the host sees it.
RepoDags == <<"notebooks", "airflow", "dags">>

\* $AIRFLOW_HOME and the folder Airflow reads DAGs from.
AIRFLOW_HOME == <<"usr", "local", "airflow">>

DagsFolder == AIRFLOW_HOME \o <<"dags">>

\* The container paths the model reads and writes.
ContainerPaths ==
    {WorkspaceTarget \o <<f>> : f \in FileNames}
        \cup {DagsFolder \o <<f>> : f \in FileNames}
        \cup {<<"workshop", "notebooks", "airflow", "dags", "a.py">>}

HostLocations == {[kind |-> "host", path |-> RepoDags \o <<f>>] : f \in FileNames}

Locations ==
    {Resolve(s, p) : s \in Services, p \in ContainerPaths} \cup HostLocations

Read(s, p) == store[Resolve(s, p)]

ComposeInit ==
    /\ container = [s \in Services |-> "down"]
    /\ store = [l \in Locations |-> 0]
    /\ lastWriter = "none"

\* A host port is held by every running container that publishes it.
Held(s) == UNION {HostPorts(o) : o \in {x \in Services \ {s} : container[x] = "running"}}

\* docker-compose up <service>: the container starts unless one of its host
\* ports is already allocated or it mounts a volume the file does not declare.
Up(s) ==
    /\ container[s] # "running"
    /\ container' = [container EXCEPT ![s] =
                        IF /\ HostPorts(s) \cap Held(s) = {}
                           /\ \A m \in Mounts(s) : m.type = "volume" => m.source \in NamedVolumes
                        THEN "running" ELSE "failed"]
    /\ UNCHANGED <<store, lastWriter>>

\* docker-compose rm -s <service>: the container and its own layer go, what it
\* mounted stays.
Down(s) ==
    /\ container[s] # "down"
    /\ container' = [container EXCEPT ![s] = "down"]
    /\ store' = [l \in Locations |->
                    IF l.kind = "layer" /\ l.path[1] = s THEN 0 ELSE store[l]]
    /\ UNCHANGED lastWriter

\* docker-compose down -v: every container and every named volume is removed.
DownVolumes ==
    /\ \E s \in Services : container[s] # "down"
    /\ container' = [s \in Services |-> "down"]
    /\ store' = [l \in Locations |-> IF l.kind = "host" THEN store[l] ELSE 0]
    /\ lastWriter' = "none"

\* A process of a running container writes (c > 0) or removes (c = 0) a file.
Write(s, p, c) ==
    /\ container[s] = "running"
    /\ store' = [store EXCEPT ![Resolve(s, p)] = c]
    /\ lastWriter' = s
    /\ UNCHANGED container

\* The host places a DAG file in the repository's dags folder, or removes it.
HostWrite(f, c) ==
    /\ store' = [store EXCEPT ![[kind |-> "host", path |-> RepoDags \o <<f>>]] = c]
    /\ lastWriter' = "host"
    /\ UNCHANGED container

(***************************************************************************)
(* airflow-introduction.ipynb: the example DAG and its runs                *)
(***************************************************************************)

\* DAG runs the scheduler creates.
MaxRuns == 2

\* Tries a task instance gets before it is failed.
MaxTries == 2

Runs == 1..MaxRuns

\* The task ids of the four operators of the notebook.
python_task == "print"

fs_task == "lookup_file"

task1 == "task1"

task2 == "task2"

Tasks == {python_task, fs_task, task1, task2}

\* def foo(): x = "hello world"; return x
foo == "hello world"

\* The operator statements: task id, operator class, python_callable.
PythonPrint == [op |-> "task", id |-> python_task, kind |-> "PythonOperator", callable |-> "print_sth"]

FileSensorAsPython == [op |-> "task", id |-> fs_task, kind |-> "PythonOperator", callable |-> "print_sth"]

FileSensor == [op |-> "task", id |-> fs_task, kind |-> "FileSensor", callable |-> "none"]

PythonTask1 == [op |-> "task", id |-> task1, kind |-> "PythonOperator", callable |-> "foo"]

PythonTask2 == [op |-> "task", id |-> task2, kind |-> "PythonOperator", callable |-> "bar"]

\* fs_task >> python_task
ConnectSensorReversed == [op |-> ">>", up |-> python_task, down |-> fs_task]

ConnectSensor == [op |-> ">>", up |-> fs_task, down |-> python_task]

\* task1 >> task2
ConnectXComReversed == [op |-> ">>", up |-> task2, down |-> task1]

ConnectXCom == [op |-> ">>", up |-> task1, down |-> task2]

\* The statements of the notebook's DAG file, in the order they are given.
DagFileWithLoop ==
    << [op |-> "DAG"], PythonPrint, FileSensor, ConnectSensor,
       PythonTask1, PythonTask2, ConnectXCom, ConnectXComReversed >>

DagFile ==
    << [op |-> "DAG"], PythonPrint, FileSensor, ConnectSensor,
       PythonTask1, PythonTask2, ConnectXCom >>

Parsed == parsePc = Len(DagFile) + 1

Operator(t) == CHOOSE st \in {DagFile[i] : i \in 1..Len(DagFile)} : st.op = "task" /\ st.id = t

Upstream(t) == {e[1] : e \in {x \in edges : x[2] = t}}

Started == {"running", "success", "failed", "up_for_retry"}

Terminal == {"success", "failed", "upstream_failed"}

AirflowInit ==
    /\ parsePc = 1
    /\ dagTasks = {}
    /\ edges = {}
    /\ run = 1
    /\ taskState = [t \in Tasks |-> "none"]
    /\ tries = [t \in Tasks |-> 0]
    /\ fileExists = FALSE
    /\ fileSeen = FALSE
    /\ xcom = {}
    /\ pulled = [r \in Runs |-> "nothing"]

\* The DAG file is imported statement by statement; a statement that names a
\* task not yet defined raises and the import fails.
ParseStatement ==
    /\ parsePc \in 1..Len(DagFile)
    /\ LET st == DagFile[parsePc] IN
          CASE st.op = "DAG" ->
                  /\ parsePc' = parsePc + 1
                  /\ UNCHANGED <<dagTasks, edges>>
            [] st.op = "task" ->
                  /\ parsePc' = parsePc + 1
                  /\ dagTasks' = dagTasks \cup {st.id}
                  /\ UNCHANGED edges
            [] st.op = ">>" ->
                  IF {st.up, st.down} \subseteq dagTasks
                  THEN /\ parsePc' = parsePc + 1
                       /\ edges' = edges \cup {<<st.up, st.down>>}
                       /\ UNCHANGED dagTasks
                  ELSE /\ parsePc' = 0
                       /\ UNCHANGED <<dagTasks, edges>>
    /\ UNCHANGED <<run, taskState, tries, fileExists, fileSeen, xcom, pulled>>

\* The file at the sensor's filepath appears.
CreateFile ==
    /\ ~fileExists
    /\ fileExists' = TRUE
    /\ fileSeen' = TRUE
    /\ UNCHANGED <<parsePc, dagTasks, edges, run, taskState, tries, xcom, pulled>>

\* The file at the sensor's filepath is removed.
RemoveFile ==
    /\ fileExists
    /\ fileExists' = FALSE
    /\ UNCHANGED <<parsePc, dagTasks, edges, run, taskState, tries, fileSeen, xcom, pulled>>

\* The scheduler starts a task instance once every upstream task has
\* succeeded; the instance's earlier XComs of this run are cleared.
Start(t) ==
    /\ Parsed
    /\ t \in dagTasks
    /\ taskState[t] \in {"none", "up_for_retry"}
    /\ \A u \in Upstream(t) : taskState[u] = "success"
    /\ taskState' = [taskState EXCEPT ![t] = "running"]
    /\ tries' = [tries EXCEPT ![t] = @ + 1]
    /\ xcom' = {x \in xcom : ~(x[1] = run /\ x[2] = t)}
    /\ UNCHANGED <<parsePc, dagTasks, edges, run, fileExists, fileSeen, pulled>>

\* A task instance that ends without success is retried while tries are left.
AfterFailure(t) == IF tries[t] < MaxTries THEN "up_for_retry" ELSE "failed"

\* A sensor pokes: it finishes when its condition is met.
Poke(t) ==
    /\ taskState[t] = "running"
    /\ Operator(t).kind = "FileSensor"
    /\ fileExists
    /\ taskState' = [taskState EXCEPT ![t] = "success"]
    /\ UNCHANGED <<parsePc, dagTasks, edges, run, tries, fileExists, fileSeen, xcom, pulled>>

\* A sensor whose condition is not met within its timeout fails.
SensorTimeout(t) ==
    /\ taskState[t] = "running"
    /\ Operator(t).kind = "FileSensor"
    /\ ~fileExists
    /\ taskState' = [taskState EXCEPT ![t] = AfterFailure(t)]
    /\ UNCHANGED <<parsePc, dagTasks, edges, run, tries, fileExists, fileSeen, xcom, pulled>>

\* context["task_instance"].xcom_pull(task_ids=t): the value t pushed in this
\* run, None when there is none.
xcom_pull(t) ==
    IF \E x \in xcom : x[1] = run /\ x[2] = t
    THEN (CHOOSE x \in xcom : x[1] = run /\ x[2] = t)[3]
    ELSE "None"

\* A PythonOperator runs its callable and finishes; a returned value is pushed
\* to XCom, and bar pulls what task1 pushed.
Execute(t) ==
    /\ taskState[t] = "running"
    /\ Operator(t).kind = "PythonOperator"
    /\ taskState' = [taskState EXCEPT ![t] = "success"]
    /\ xcom' = IF Operator(t).callable = "foo" THEN xcom \cup {<<run, t, foo>>} ELSE xcom
    /\ pulled' = IF Operator(t).callable = "bar"
                 THEN [pulled EXCEPT ![run] = xcom_pull(task1)]
                 ELSE pulled
    /\ UNCHANGED <<parsePc, dagTasks, edges, run, tries, fileExists, fileSeen>>

\* The callable raises, or its worker is lost.
Raise(t) ==
    /\ taskState[t] = "running"
    /\ Operator(t).kind = "PythonOperator"
    /\ taskState' = [taskState EXCEPT ![t] = AfterFailure(t)]
    /\ UNCHANGED <<parsePc, dagTasks, edges, run, tries, fileExists, fileSeen, xcom, pulled>>

\* A task one of whose upstream tasks failed is never started.
MarkUpstreamFailed(t) ==
    /\ Parsed
    /\ t \in dagTasks
    /\ taskState[t] = "none"
    /\ \E u \in Upstream(t) : taskState[u] \in {"failed", "upstream_failed"}
    /\ taskState' = [taskState EXCEPT ![t] = "upstream_failed"]
    /\ UNCHANGED <<parsePc, dagTasks, edges, run, tries, fileExists, fileSeen, xcom, pulled>>

\* schedule_interval: the next DAG run starts with fresh task instances.
NextRun ==
    /\ Parsed
    /\ run < MaxRuns
    /\ \A t \in Tasks : taskState[t] \in Terminal
    /\ run' = run + 1
    /\ taskState' = [t \in Tasks |-> "none"]
    /\ tries' = [t \in Tasks |-> 0]
    /\ UNCHANGED <<parsePc, dagTasks, edges, fileExists, fileSeen, xcom, pulled>>

(***************************************************************************)
(* dvc_introduction.ipynb and the Kedro exercise, run top to bottom        *)
(***************************************************************************)

\* Times a notebook is started again from its top.
MaxReruns == 1

Notebooks == {"dvc", "kedro"}

\* The directory a notebook's kernel starts in.
NotebookDir == "/workshop/notebooks"

ProjectDir(n) ==
    IF n = "dvc" THEN "/workshop/workspace/dvc_intro"
    ELSE "/workshop/workspace/workflow-tutorial"

RemoteDir(n) == IF n = "dvc" THEN "/tmp/dvc_introduction" ELSE "/tmp/kedro"

\* One command of a notebook: the line it is on, what it is, its argument (a
\* file, a directory, a stage, a pipeline), the version a %%writefile writes,
\* and whether its failure stops the run: a python cell or a %%writefile that
\* raises, or the last command of a %%bash / %%sh cell; a failing !command
\* stops nothing.
C(line, kind, arg, v, halt) ==
    [line |-> line, kind |-> kind, arg |-> arg, v |-> v, halt |-> halt]

Url == "http://archive.ics.uci.edu/ml/machine-learning-databases/wine-quality/winequality-red.csv"

DvcScriptPushFirst ==
    << C(29, "mkdir", ProjectDir("dvc"), 0, FALSE),
       C(30, "cp", "sources", 0, FALSE),
       C(31, "cp", "data", 0, TRUE),
       C(41, "chdir", ProjectDir("dvc"), 0, TRUE),
       C(64, "git_init", "", 0, FALSE),
       C(80, "noop", "git config", 0, FALSE),
       C(97, "dvc_init", "-f", 0, FALSE),
       C(113, "dvc_add", "data/image.jpg", 0, FALSE),
       C(181, "push", "", 0, FALSE),
       C(129, "remote_add", RemoteDir("dvc"), 0, FALSE),
       C(138, "git", "status", 0, FALSE),
       C(147, "git", "add", 0, FALSE),
       C(156, "git", "commit", 0, FALSE),
       C(172, "status_c", "", 0, FALSE),
       C(198, "run", "download", 0, TRUE),
       C(212, "run", "split", 0, TRUE),
       C(226, "run", "train", 0, TRUE),
       C(241, "run", "evaluate", 0, TRUE),
       C(254, "git", "add", 0, FALSE),
       C(255, "git", "commit", 0, FALSE),
       C(271, "dag", "", 0, FALSE),
       C(280, "status_c", "", 0, FALSE),
       C(289, "push", "", 0, FALSE),
       C(298, "status_c", "", 0, FALSE),
       C(314, "status", "", 0, FALSE),
       C(323, "repro", "", 0, FALSE),
       C(339, "sed", "params.yaml", 0, FALSE),
       C(348, "repro", "", 0, FALSE),
       C(349, "noop", "dvc metrics diff", 0, FALSE),
       C(366, "git", "checkout", 0, FALSE),
       C(367, "git", "add", 0, FALSE),
       C(368, "git", "commit", 0, FALSE),
       C(370, "noop", "dvc metrics diff", 0, TRUE),
       C(393, "get", "model.pkl", 0, FALSE),
       C(402, "rm", "model.pkl", 0, FALSE),
       C(418, "import", "model.pkl", 0, FALSE),
       C(427, "noop", "cat", 0, FALSE),
       C(444, "chdir", NotebookDir, 0, TRUE),
       C(454, "rmrf", ProjectDir("dvc"), 0, FALSE),
       C(455, "rmrf", RemoteDir("dvc"), 0, TRUE) >>

\* The code cells of dvc_introduction.ipynb.
DvcScript ==
    << C(29, "mkdir", ProjectDir("dvc"), 0, FALSE),
       C(30, "cp", "sources", 0, FALSE),
       C(31, "cp", "data", 0, TRUE),
       C(41, "chdir", ProjectDir("dvc"), 0, TRUE),
       C(64, "git_init", "", 0, FALSE),
       C(80, "noop", "git config", 0, FALSE),
       C(97, "dvc_init", "-f", 0, FALSE),
       C(113, "dvc_add", "data/image.jpg", 0, FALSE),
       C(129, "remote_add", RemoteDir("dvc"), 0, FALSE),
       C(138, "git", "status", 0, FALSE),
       C(147, "git", "add", 0, FALSE),
       C(156, "git", "commit", 0, FALSE),
       C(172, "status_c", "", 0, FALSE),
       C(181, "push", "", 0, FALSE),
       C(198, "run", "download", 0, TRUE),
       C(212, "run", "split", 0, TRUE),
       C(226, "run", "train", 0, TRUE),
       C(241, "run", "evaluate", 0, TRUE),
       C(254, "git", "add", 0, FALSE),
       C(255, "git", "commit", 0, FALSE),
       C(271, "dag", "", 0, FALSE),
       C(280, "status_c", "", 0, FALSE),
       C(289, "push", "", 0, FALSE),
       C(298, "status_c", "", 0, FALSE),
       C(314, "status", "", 0, FALSE),
       C(323, "repro", "", 0, FALSE),
       C(339, "sed", "params.yaml", 0, FALSE),
       C(348, "repro", "", 0, FALSE),
       C(349, "noop", "dvc metrics diff", 0, FALSE),
       C(366, "git", "checkout", 0, FALSE),
       C(367, "git", "add", 0, FALSE),
       C(368, "git", "commit", 0, FALSE),
       C(370, "noop", "dvc metrics diff", 0, TRUE),
       C(393, "get", "model.pkl", 0, FALSE),
       C(402, "rm", "model.pkl", 0, FALSE),
       C(418, "import", "model.pkl", 0, FALSE),
       C(427, "noop", "cat", 0, FALSE),
       C(444, "chdir", NotebookDir, 0, TRUE),
       C(454, "rmrf", ProjectDir("dvc"), 0, FALSE),
       C(455, "rmrf", RemoteDir("dvc"), 0, TRUE) >>

KedroScriptRunFirst ==
    << C(265, "kedro_run", "default", 0, FALSE),
       C(139, "chdir", ProjectDir("kedro"), 0, TRUE),
       C(220, "writefile", "src/workflow_tutorial/pipelines", 2, TRUE),
       C(274, "noop", "kedro viz", 0, FALSE),
       C(291, "kedro_run", "default", 0, FALSE),
       C(300, "noop", "mlflow ui", 0, FALSE),
       C(332, "writefile", "conf/base/parameters.yml", 2, TRUE),
       C(386, "writefile", "conf/base/catalog.yml", 2, TRUE),
       C(413, "writefile", "src/workflow_tutorial/pipelines", 3, TRUE),
       C(493, "writefile", "src/workflow_tutorial/hooks.py", 2, TRUE),
       C(568, "kedro_run", "default", 0, FALSE),
       C(585, "noop", "kedro viz", 0, FALSE),
       C(602, "git_init", "", 0, FALSE),
       C(603, "dvc_init", "", 0, FALSE),
       C(619, "remote_add", RemoteDir("kedro"), 0, FALSE),
       C(636, "noop", "echo >> .gitignore", 0, FALSE),
       C(637, "git", "add", 0, FALSE),
       C(649, "git", "commit", 0, FALSE),
       C(665, "writefile", "conf/base/catalog.yml", 3, TRUE),
       C(708, "run", "kedro_red", 0, TRUE),
       C(724, "run", "kedro_white", 0, TRUE),
       C(746, "git", "add", 0, FALSE),
       C(747, "git", "commit", 0, FALSE),
       C(756, "status_c", "", 0, FALSE),
       C(765, "push", "", 0, FALSE),
       C(781, "git", "status", 0, FALSE),
       C(782, "status_c", "", 0, FALSE) >>

\* The code cells of the Kedro exercise.
KedroScript ==
    << C(139, "chdir", ProjectDir("kedro"), 0, TRUE),
       C(220, "writefile", "src/workflow_tutorial/pipelines", 2, TRUE),
       C(265, "kedro_run", "default", 0, FALSE),
       C(274, "noop", "kedro viz", 0, FALSE),
       C(291, "kedro_run", "default", 0, FALSE),
       C(300, "noop", "mlflow ui", 0, FALSE),
       C(332, "writefile", "conf/base/parameters.yml", 2, TRUE),
       C(386, "writefile", "conf/base/catalog.yml", 2, TRUE),
       C(413, "writefile", "src/workflow_tutorial/pipelines", 3, TRUE),
       C(493, "writefile", "src/workflow_tutorial/hooks.py", 2, TRUE),
       C(568, "kedro_run", "default", 0, FALSE),
       C(585, "noop", "kedro viz", 0, FALSE),
       C(602, "git_init", "", 0, FALSE),
       C(603, "dvc_init", "", 0, FALSE),
       C(619, "remote_add", RemoteDir("kedro"), 0, FALSE),
       C(636, "noop", "echo >> .gitignore", 0, FALSE),
       C(637, "git", "add", 0, FALSE),
       C(649, "git", "commit", 0, FALSE),
       C(665, "writefile", "conf/base/catalog.yml", 3, TRUE),
       C(708, "run", "kedro_red", 0, TRUE),
       C(724, "run", "kedro_white", 0, TRUE),
       C(746, "git", "add", 0, FALSE),
       C(747, "git", "commit", 0, FALSE),
       C(756, "status_c", "", 0, FALSE),
       C(765, "push", "", 0, FALSE),
       C(781, "git", "status", 0, FALSE),
       C(782, "status_c", "", 0, FALSE) >>

ScriptWithoutGitInit(n) ==
    IF n = "dvc" THEN SelectSeq(DvcScript, LAMBDA c : c.kind # "git_init") ELSE KedroScript

Script(n) == IF n = "dvc" THEN DvcScript ELSE KedroScript

\* The files of the two projects the commands read or write.
DvcFiles ==
    {"dvc_introduction.py", "params.yaml", "data/image.jpg", Url,
     "data/winequality-red.csv", "data/x_train.csv", "data/y_train.csv",
     "data/x_test.csv", "data/y_test.csv", "data/model", "data/result.json",
     "model.pkl"}

KedroFiles ==
    {"src/workflow_tutorial/pipelines", "src/workflow_tutorial/hooks.py",
     "conf/base/parameters.yml", "conf/base/catalog.yml",
     "data/01_raw/winequality-red.csv", "data/01_raw/winequality-white.csv",
     "data/06_models/model_red.pickle", "data/06_models/model_white.pickle",
     "data/08_reporting/scores_red.yaml", "data/08_reporting/scores_white.yaml"}

Files == DvcFiles \cup KedroFiles

\* What the introduction notebook leaves in the Kedro project.
IntroFiles ==
    {"src/workflow_tutorial/pipelines", "src/workflow_tutorial/hooks.py",
     "conf/base/parameters.yml", "conf/base/catalog.yml",
     "data/01_raw/winequality-red.csv"}

\* The dvc run stages: -d and -p are deps, -o and -m are outs, then the command.
StageDef(name) ==
    CASE name = "download" ->
            [deps |-> {"dvc_introduction.py", Url},
             outs |-> {"data/winequality-red.csv"}, cmd |-> "python", net |-> TRUE]
      [] name = "split" ->
            [deps |-> {"dvc_introduction.py", "data/winequality-red.csv"},
             outs |-> {"data/x_train.csv", "data/y_train.csv", "data/x_test.csv", "data/y_test.csv"},
             cmd |-> "python", net |-> FALSE]
      [] name = "train" ->
            [deps |-> {"dvc_introduction.py", "data/x_train.csv", "data/y_train.csv", "params.yaml"},
             outs |-> {"data/model"}, cmd |-> "python", net |-> FALSE]
      [] name = "evaluate" ->
            [deps |-> {"dvc_introduction.py", "data/model", "data/x_test.csv", "data/y_test.csv"},
             outs |-> {"data/result.json"}, cmd |-> "python", net |-> FALSE]
      [] name = "kedro_red" ->
            [deps |-> {"conf/base/parameters.yml", "data/01_raw/winequality-red.csv",
                       "src/workflow_tutorial/pipelines"},
             outs |-> {"data/08_reporting/scores_red.yaml", "data/06_models/model_red.pickle"},
             cmd |-> "red", net |-> FALSE]
      [] name = "kedro_white" ->
            [deps |-> {"conf/base/parameters.yml", "data/01_raw/winequality-white.csv",
                       "src/workflow_tutorial/pipelines"},
             outs |-> {"data/08_reporting/scores_white.yaml", "data/06_models/model_white.pickle"},
             cmd |-> "white", net |-> TRUE]

\* The stages in the order the notebooks create them.
StageOrder == <<"download", "split", "train", "evaluate", "kedro_red", "kedro_white">>

Stages == {StageOrder[i] : i \in 1..Len(StageOrder)}

\* dvc.lock entries and .dvc files.
Tracked == Stages \cup {"data/image.jpg.dvc", "model.pkl.dvc"}

NoEntry == [present |-> FALSE, deps |-> {}, outs |-> {}]

NotebookInit ==
    /\ nb \in Notebooks
    /\ pc = 1
    /\ halted = FALSE
    /\ cwd = NotebookDir
    /\ dirs \in IF nb = "kedro" THEN {{}, {ProjectDir("kedro")}} ELSE {{}}
    /\ repo = [git |-> FALSE, dvc |-> FALSE, remote |-> FALSE]
    /\ files = [f \in Files |->
                  IF f = Url \/ (f \in IntroFiles /\ ProjectDir("kedro") \in dirs)
                  THEN 1 ELSE 0]
    /\ lock = [s \in Tracked |-> NoEntry]
    /\ cache = {}
    /\ remoteStore = {}
    /\ report = [ok |-> TRUE, statusC |-> {}, status |-> {}, repro |-> {}]
    /\ reruns = 0

Cmd == Script(nb)[pc]

Running == ~halted /\ pc \in 1..Len(Script(nb))

InProject == cwd = ProjectDir(nb) /\ ProjectDir(nb) \in dirs

\* The run goes on to the next command, or stops where a cell raised.
Finish(ok) ==
    /\ pc' = IF ~ok /\ Cmd.halt THEN pc ELSE pc + 1
    /\ halted' = (~ok /\ Cmd.halt)

Reported(ok) == [report EXCEPT !.ok = ok]

MaxV(f, fs) == CHOOSE v \in {f[x] : x \in fs} : \A x \in fs : f[x] <= v

Objects(f, fs) == {<<x, f[x]>> : x \in fs}

\* The objects the project's dvc.lock and .dvc files name.
Referenced(lk) == UNION {lk[s].outs : s \in {x \in Tracked : lk[x].present}}

\* kedro run: what the selected pipelines leave in the project's files. The
\* white pipeline saves its download to the catalog's wines-white entry; the
\* models and scores are files once the catalog has entries for them.
KedroRun(f, sel) ==
    LET red == sel \in {"red", "default"}
        white == sel = "white" \/ (sel = "default" /\ f["src/workflow_tutorial/hooks.py"] >= 2)
        saved == f["conf/base/catalog.yml"] >= 3
        v == MaxV(f, {"conf/base/parameters.yml", "src/workflow_tutorial/pipelines"})
    IN  [x \in Files |->
            CASE x = "data/01_raw/winequality-white.csv"
                     /\ white /\ f["conf/base/catalog.yml"] >= 2 -> 1
              [] x \in {"data/06_models/model_red.pickle", "data/08_reporting/scores_red.yaml"}
                     /\ red /\ saved -> v
              [] x \in {"data/06_models/model_white.pickle", "data/08_reporting/scores_white.yaml"}
                     /\ white /\ saved -> v
              [] OTHER -> f[x]]

\* The files after a stage's command has run.
RunStage(f, name) ==
    LET st == StageDef(name) IN
    IF st.cmd = "python"
    THEN [x \in Files |-> IF x \in st.outs THEN MaxV(f, st.deps) ELSE f[x]]
    ELSE KedroRun(f, st.cmd)

Entry(f, name) ==
    [present |-> TRUE,
     deps |-> Objects(f, StageDef(name).deps),
     outs |-> Objects(f, StageDef(name).outs)]

\* A stage is changed when a dependency or an output differs from dvc.lock.
Changed(f, lk, s) ==
    /\ lk[s].present
    /\ \E o \in lk[s].deps \cup lk[s].outs : f[o[1]] # o[2]

RECURSIVE Repro(_, _, _, _)
\* dvc repro from stage i on: each changed stage is run again, in the order of
\* the pipeline, and dvc.lock is rewritten for it.
Repro(i, f, lk, ran) ==
    IF i > Len(StageOrder) THEN [files |-> f, lock |-> lk, ran |-> ran]
    ELSE LET s == StageOrder[i] IN
         IF Changed(f, lk, s)
         THEN LET f2 == RunStage(f, s) IN
              Repro(i + 1, f2, [lk EXCEPT ![s] = Entry(f2, s)], ran \cup {s})
         ELSE Repro(i + 1, f, lk, ran)

\* mkdir -p
Mkdir ==
    /\ Running /\ Cmd.kind = "mkdir"
    /\ dirs' = dirs \cup {Cmd.arg}
    /\ Finish(TRUE)
    /\ report' = Reported(TRUE)
    /\ UNCHANGED <<reruns, nb, cwd, repo, files, lock, cache, remoteStore>>

\* cp of the notebook's sources, or of its data folder, into the project.
Cp ==
    /\ Running /\ Cmd.kind = "cp"
    /\ LET ok == ProjectDir(nb) \in dirs
           new == IF Cmd.arg = "sources" THEN {"dvc_introduction.py", "params.yaml"}
                  ELSE {"data/image.jpg"}
       IN  /\ files' = IF ok THEN [f \in Files |-> IF f \in new THEN 1 ELSE files[f]]
                       ELSE files
           /\ Finish(ok)
           /\ report' = Reported(ok)
    /\ UNCHANGED <<reruns, nb, cwd, dirs, repo, lock, cache, remoteStore>>

\* os.chdir raises when the directory does not exist.
ChDir ==
    /\ Running /\ Cmd.kind = "chdir"
    /\ LET ok == Cmd.arg \in dirs \cup {NotebookDir}
       IN  /\ cwd' = IF ok THEN Cmd.arg ELSE cwd
           /\ Finish(ok)
           /\ report' = Reported(ok)
    /\ UNCHANGED <<reruns, nb, dirs, repo, files, lock, cache, remoteStore>>

\* %%writefile of a path below the working directory.
WriteFile ==
    /\ Running /\ Cmd.kind = "writefile"
    /\ LET ok == InProject
       IN  /\ files' = IF ok THEN [files EXCEPT ![Cmd.arg] = Cmd.v] ELSE files
           /\ Finish(ok)
           /\ report' = Reported(ok)
    /\ UNCHANGED <<reruns, nb, cwd, dirs, repo, lock, cache, remoteStore>>

\* kedro run: it may fail (a node raises, the download finds no network), and
\* it fails when hooks.py calls functions pipeline.py does not define: the
\* hooks.py of "Register the pipeline" goes with the pipeline.py of "Create
\* the pipeline".
KedroRunCmd ==
    /\ Running /\ Cmd.kind = "kedro_run"
    /\ \E works \in BOOLEAN :
          LET ok == /\ works
                    /\ InProject
                    /\ files["src/workflow_tutorial/pipelines"] > 0
                    /\ (files["src/workflow_tutorial/hooks.py"] >= 2)
                          = (files["src/workflow_tutorial/pipelines"] >= 3)
                    /\ files["data/01_raw/winequality-red.csv"] > 0
          IN  /\ files' = IF ok THEN KedroRun(files, Cmd.arg) ELSE files
              /\ Finish(ok)
              /\ report' = Reported(ok)
    /\ UNCHANGED <<reruns, nb, cwd, dirs, repo, lock, cache, remoteStore>>

\* A command that changes nothing the model keeps (git config, cat, kedro viz,
\* mlflow ui, dvc metrics diff).
Noop ==
    /\ Running /\ Cmd.kind = "noop"
    /\ Finish(TRUE)
    /\ report' = Reported(TRUE)
    /\ UNCHANGED <<reruns, nb, cwd, dirs, repo, files, lock, cache, remoteStore>>

\* git init
GitInit ==
    /\ Running /\ Cmd.kind = "git_init"
    /\ repo' = IF InProject THEN [repo EXCEPT !.git = TRUE] ELSE repo
    /\ Finish(TRUE)
    /\ report' = Reported(TRUE)
    /\ UNCHANGED <<reruns, nb, cwd, dirs, files, lock, cache, remoteStore>>

\* git status, add, commit, checkout: they need the repository.
Git ==
    /\ Running /\ Cmd.kind = "git"
    /\ Finish(InProject /\ repo.git)
    /\ report' = Reported(InProject /\ repo.git)
    /\ UNCHANGED <<reruns, nb, cwd, dirs, repo, files, lock, cache, remoteStore>>

\* dvc init: it needs the git repository, and no .dvc directory unless -f is
\* given, which replaces the directory: its cache and its config are gone.
DvcInit ==
    /\ Running /\ Cmd.kind = "dvc_init"
    /\ LET ok == InProject /\ repo.git /\ (Cmd.arg = "-f" \/ ~repo.dvc)
       IN  /\ repo' = IF ok THEN [repo EXCEPT !.dvc = TRUE, !.remote = FALSE] ELSE repo
           /\ cache' = IF ok THEN {} ELSE cache
           /\ Finish(ok)
           /\ report' = Reported(ok)
    /\ UNCHANGED <<reruns, nb, cwd, dirs, files, lock, remoteStore>>

\* dvc add: the file goes to the cache and gets a .dvc file.
DvcAdd ==
    /\ Running /\ Cmd.kind = "dvc_add"
    /\ LET ok == InProject /\ repo.dvc /\ files[Cmd.arg] > 0
           obj == {<<Cmd.arg, files[Cmd.arg]>>}
       IN  /\ cache' = IF ok THEN cache \cup obj ELSE cache
           /\ lock' = IF ok
                      THEN [lock EXCEPT !["data/image.jpg.dvc"] =
                               [present |-> TRUE, deps |-> {}, outs |-> obj]]
                      ELSE lock
           /\ Finish(ok)
           /\ report' = Reported(ok)
    /\ UNCHANGED <<reruns, nb, cwd, dirs, repo, files, remoteStore>>

\* dvc remote add -d -f: the project gets a default remote.
DvcRemoteAdd ==
    /\ Running /\ Cmd.kind = "remote_add"
    /\ LET ok == InProject /\ repo.dvc
       IN  /\ repo' = IF ok THEN [repo EXCEPT !.remote = TRUE] ELSE repo
           /\ Finish(ok)
           /\ report' = Reported(ok)
    /\ UNCHANGED <<reruns, nb, cwd, dirs, files, lock, cache, remoteStore>>

\* dvc status -c: the referenced objects of the cache the remote lacks.
DvcStatusCloud ==
    /\ Running /\ Cmd.kind = "status_c"
    /\ LET ok == InProject /\ repo.dvc /\ repo.remote
       IN  /\ report' = IF ok
                        THEN [report EXCEPT !.ok = TRUE,
                                !.statusC = (Referenced(lock) \cap cache) \ remoteStore]
                        ELSE Reported(FALSE)
           /\ Finish(ok)
    /\ UNCHANGED <<reruns, nb, cwd, dirs, repo, files, lock, cache, remoteStore>>

\* dvc push: the referenced objects of the cache are copied to the default
\* remote.
DvcPush ==
    /\ Running /\ Cmd.kind = "push"
    /\ LET ok == InProject /\ repo.dvc /\ repo.remote
       IN  /\ remoteStore' = IF ok THEN remoteStore \cup (Referenced(lock) \cap cache)
                             ELSE remoteStore
           /\ dirs' = IF ok THEN dirs \cup {RemoteDir(nb)} ELSE dirs
           /\ Finish(ok)
           /\ report' = Reported(ok)
    /\ UNCHANGED <<reruns, nb, cwd, repo, files, lock, cache>>

\* dvc run -n <stage>: the dependencies must exist, the command runs (one that
\* downloads may find no network), its outputs must exist afterwards; they go
\* to the cache and the stage to dvc.lock.
DvcRun ==
    /\ Running /\ Cmd.kind = "run"
    /\ \E works \in BOOLEAN :
          LET st == StageDef(Cmd.arg)
              f2 == RunStage(files, Cmd.arg)
              ok == /\ works \/ ~st.net
                    /\ InProject /\ repo.dvc
                    /\ ~lock[Cmd.arg].present
                    /\ \A d \in st.deps : files[d] > 0
                    /\ \A o \in st.outs : f2[o] > 0
          IN  /\ files' = IF ok THEN f2 ELSE files
              /\ cache' = IF ok THEN cache \cup Objects(f2, st.outs) ELSE cache
              /\ lock' = IF ok THEN [lock EXCEPT ![Cmd.arg] = Entry(f2, Cmd.arg)] ELSE lock
              /\ Finish(ok)
              /\ report' = Reported(ok)
    /\ UNCHANGED <<reruns, nb, cwd, dirs, repo, remoteStore>>

\* dvc dag
DvcDag ==
    /\ Running /\ Cmd.kind = "dag"
    /\ Finish(InProject /\ repo.dvc)
    /\ report' = Reported(InProject /\ repo.dvc)
    /\ UNCHANGED <<reruns, nb, cwd, dirs, repo, files, lock, cache, remoteStore>>

\* dvc status: the changed stages.
DvcStatus ==
    /\ Running /\ Cmd.kind = "status"
    /\ LET ok == InProject /\ repo.dvc
       IN  /\ report' = IF ok
                        THEN [report EXCEPT !.ok = TRUE,
                                !.status = {s \in Stages : Changed(files, lock, s)}]
                        ELSE Reported(FALSE)
           /\ Finish(ok)
    /\ UNCHANGED <<reruns, nb, cwd, dirs, repo, files, lock, cache, remoteStore>>

\* dvc repro
DvcRepro ==
    /\ Running /\ Cmd.kind = "repro"
    /\ LET ok == InProject /\ repo.dvc
           r == Repro(1, files, lock, {})
       IN  /\ files' = IF ok THEN r.files ELSE files
           /\ lock' = IF ok THEN r.lock ELSE lock
           /\ cache' = IF ok THEN cache \cup Referenced(r.lock) ELSE cache
           /\ report' = IF ok THEN [report EXCEPT !.ok = TRUE, !.repro = r.ran]
                        ELSE Reported(FALSE)
           /\ Finish(ok)
    /\ UNCHANGED <<reruns, nb, cwd, dirs, repo, remoteStore>>

\* sed -i -e "s/alpha:\s0.5/alpha: 0.6/g" params.yaml
Sed ==
    /\ Running /\ Cmd.kind = "sed"
    /\ LET ok == InProject /\ files[Cmd.arg] > 0
       IN  /\ files' = IF ok /\ files[Cmd.arg] = 1 THEN [files EXCEPT ![Cmd.arg] = 2]
                       ELSE files
           /\ Finish(ok)
           /\ report' = Reported(ok)
    /\ UNCHANGED <<reruns, nb, cwd, dirs, repo, lock, cache, remoteStore>>

\* dvc get: a file of another repository is downloaded.
DvcGet ==
    /\ Running /\ Cmd.kind = "get"
    /\ \E works \in BOOLEAN :
          LET ok == works /\ InProject
          IN  /\ files' = IF ok THEN [files EXCEPT ![Cmd.arg] = 1] ELSE files
              /\ Finish(ok)
              /\ report' = Reported(ok)
    /\ UNCHANGED <<reruns, nb, cwd, dirs, repo, lock, cache, remoteStore>>

\* rm
Rm ==
    /\ Running /\ Cmd.kind = "rm"
    /\ LET ok == InProject /\ files[Cmd.arg] > 0
       IN  /\ files' = IF ok THEN [files EXCEPT ![Cmd.arg] = 0] ELSE files
           /\ Finish(ok)
           /\ report' = Reported(ok)
    /\ UNCHANGED <<reruns, nb, cwd, dirs, repo, lock, cache, remoteStore>>

\* dvc import: as dvc get, and the file is cached and gets a .dvc file.
DvcImport ==
    /\ Running /\ Cmd.kind = "import"
    /\ \E works \in BOOLEAN :
          LET ok == works /\ InProject /\ repo.dvc
              obj == {<<Cmd.arg, 1>>}
          IN  /\ files' = IF ok THEN [files EXCEPT ![Cmd.arg] = 1] ELSE files
              /\ cache' = IF ok THEN cache \cup obj ELSE cache
              /\ lock' = IF ok
                         THEN [lock EXCEPT !["model.pkl.dvc"] =
                                  [present |-> TRUE, deps |-> {}, outs |-> obj]]
                         ELSE lock
              /\ Finish(ok)
              /\ report' = Reported(ok)
    /\ UNCHANGED <<reruns, nb, cwd, dirs, repo, remoteStore>>

\* rm -rf of the project or of the remote's directory.
RmRf ==
    /\ Running /\ Cmd.kind = "rmrf"
    /\ dirs' = dirs \ {Cmd.arg}
    /\ IF Cmd.arg = ProjectDir(nb)
       THEN /\ files' = [f \in Files |-> IF f = Url THEN files[f] ELSE 0]
            /\ repo' = [git |-> FALSE, dvc |-> FALSE, remote |-> FALSE]
            /\ lock' = [s \in Tracked |-> NoEntry]
            /\ cache' = {}
            /\ UNCHANGED remoteStore
       ELSE /\ remoteStore' = {}
            /\ UNCHANGED <<files, repo, lock, cache>>
    /\ Finish(TRUE)
    /\ report' = Reported(TRUE)
    /\ UNCHANGED <<reruns, nb, cwd>>

\* The notebook, finished or stopped, is run again from its top in the same
\* kernel.
Rerun ==
    /\ halted \/ pc > Len(Script(nb))
    /\ reruns < MaxReruns
    /\ reruns' = reruns + 1
    /\ pc' = 1
    /\ halted' = FALSE
    /\ UNCHANGED <<nb, cwd, dirs, repo, files, lock, cache, remoteStore, report>>

(***************************************************************************)
(* The Kedro project of the exercise: pipeline.py, hooks.py and kedro run  *)
(***************************************************************************)

\* kedro run invocations one project sees.
MaxSessions == 2

\* node(func=, inputs=, outputs=, name=)
node(func, inputs, outputs, name) ==
    [func |-> func, inputs |-> inputs, outputs |-> outputs, name |-> name]

\* pipeline.py as the cell "Extend existing pipeline" writes it.
create_pipeline ==
    << node("split_data", {"wines-red", "parameters"},
            {"x_train", "x_test", "y_train", "y_test"}, "splitting_data"),
       node("train_model", {"x_train", "y_train", "parameters"},
            {"model"}, "training_model"),
       node("evaluate_model", {"model", "x_test", "y_test"},
            {"evaluation_metric"}, "evaluating_model") >>

\* pipeline.py as the cell "Create the pipeline" writes it.
create_red_wine_pipeline ==
    << node("split_data", {"wines-red", "parameters"},
            {"x_train_red", "x_test_red", "y_train_red", "y_test_red"},
            "splitting_red_wine_data"),
       node("train_model", {"x_train_red", "y_train_red", "parameters"},
            {"model_red"}, "training_red_wine_model"),
       node("evaluate_model", {"model_red", "x_test_red", "y_test_red"},
            {"evaluation_metrics_red"}, "evaluating_red_wine_model") >>

create_white_wine_pipeline_unlinked ==
    << node("download_data", {"params:white_wine_data_url"},
            {"wines-white-raw"}, "download_white_wine_data"),
       node("split_data", {"wines-white", "parameters"},
            {"x_train_white", "x_test_white", "y_train_white", "y_test_white"},
            "splitting_white_wine_data"),
       node("train_model", {"x_train_white", "y_train_white", "parameters"},
            {"model_white"}, "training_white_wine_model"),
       node("evaluate_model", {"model_white", "x_test_white", "y_test_white"},
            {"evaluation_metrics_white"}, "evaluating_white_wine_model") >>

create_white_wine_pipeline_red_split ==
    << node("download_data", {"params:white_wine_data_url"},
            {"wines-white"}, "download_white_wine_data"),
       node("split_data", {"wines-white", "parameters"},
            {"x_train_white", "x_test_white", "y_train_white", "y_test_white"},
            "splitting_white_wine_data"),
       node("train_model", {"x_train_red", "y_train_white", "parameters"},
            {"model_white"}, "training_white_wine_model"),
       node("evaluate_model", {"model_white", "x_test_white", "y_test_white"},
            {"evaluation_metrics_white"}, "evaluating_white_wine_model") >>

create_white_wine_pipeline ==
    << node("download_data", {"params:white_wine_data_url"},
            {"wines-white"}, "download_white_wine_data"),
       node("split_data", {"wines-white", "parameters"},
            {"x_train_white", "x_test_white", "y_train_white", "y_test_white"},
            "splitting_white_wine_data"),
       node("train_model", {"x_train_white", "y_train_white", "parameters"},
            {"model_white"}, "training_white_wine_model"),
       node("evaluate_model", {"model_white", "x_test_white", "y_test_white"},
            {"evaluation_metrics_white"}, "evaluating_white_wine_model") >>

\* Pipeline([...]): the nodes of the list; p + q is Pipeline(set(p.nodes + q.nodes)).
Pipeline(ns) == {ns[i] : i \in 1..Len(ns)}

Names(p) == {n.name : n \in p}

Inputs(p) == UNION {n.inputs : n \in p}

Outputs(p) == UNION {n.outputs : n \in p}

\* The datasets a pipeline needs from the catalog, and those nobody consumes.
FreeInputs(p) == Inputs(p) \ Outputs(p)

FreeOutputs(p) == Outputs(p) \ Inputs(p)

\* The nodes of p whose outputs n takes as inputs.
Producers(p, n) == {m \in p : m.outputs \cap n.inputs # {}}

RECURSIVE Sorted(_, _)
\* The nodes a topological sort of p places, group after group.
Sorted(p, placed) ==
    LET ready == {n \in p \ placed : Producers(p, n) \subseteq placed}
    IN  IF ready = {} THEN placed ELSE Sorted(p, placed \cup ready)

\* What Pipeline() checks of its nodes: unique names, unique outputs, no cycle.
ValidPipeline(p) ==
    /\ \A a, b \in p : a # b => (a.name # b.name /\ a.outputs \cap b.outputs = {})
    /\ Sorted(p, {}) = p

ValidList(ns) ==
    /\ \A i, j \in 1..Len(ns) : i # j => ns[i].name # ns[j].name
    /\ ValidPipeline(Pipeline(ns))

register_pipelines_swapped ==
    LET red_wine_pipeline == Pipeline(create_red_wine_pipeline)
        white_wine_pipeline == Pipeline(create_white_wine_pipeline)
    IN  [name \in {"red", "white", "__default__"} |->
            CASE name = "red" -> white_wine_pipeline
              [] name = "white" -> red_wine_pipeline
              [] name = "__default__" -> red_wine_pipeline \cup white_wine_pipeline]

\* hooks.py as the cell "Register the pipeline" writes it.
register_pipelines ==
    LET red_wine_pipeline == Pipeline(create_red_wine_pipeline)
        white_wine_pipeline == Pipeline(create_white_wine_pipeline)
    IN  [name \in {"red", "white", "__default__"} |->
            CASE name = "red" -> red_wine_pipeline
              [] name = "white" -> white_wine_pipeline
              [] name = "__default__" -> red_wine_pipeline \cup white_wine_pipeline]

\* The versions of the project's files: 1 is what the introduction left, 2 and
\* 3 are what the cells of the exercise write (the v of their commands).
KedroProjects ==
    [pipelines : {2, 3}, hooks : {1, 2}, catalog : {1, 2, 3}, parameters : {1, 2}]

\* The pipelines the project's hooks.py registers. The hooks.py of the
\* introduction registers its one pipeline as the default.
Registered(pr) ==
    IF pr.hooks = 2 THEN register_pipelines
    ELSE [name \in {"__default__"} |-> Pipeline(create_pipeline)]

\* hooks.py finds the functions it calls in pipeline.py and every Pipeline it
\* builds is a valid one.
Registers(pr) ==
    IF pr.hooks = 2
    THEN /\ pr.pipelines = 3
         /\ ValidList(create_red_wine_pipeline)
         /\ ValidList(create_white_wine_pipeline)
         /\ ValidPipeline(register_pipelines["__default__"])
    ELSE /\ pr.pipelines = 2
         /\ ValidList(create_pipeline)

\* conf/base/catalog.yml: the datasets that are files.
Catalog(v) ==
    CASE v = 1 -> {"wines-red"}
      [] v = 2 -> {"wines-red", "wines-white"}
      [] v = 3 -> {"wines-red", "wines-white", "model_red", "model_white",
                   "evaluation_metrics_red", "evaluation_metrics_white"}

\* conf/base/parameters.yml: parameters and one params:<key> for each key.
ParamDatasets(v) ==
    {"parameters", "params:test_size", "params:random_state", "params:alpha",
     "params:l1_ratio"}
        \cup (IF v >= 2 THEN {"params:white_wine_data_url"} ELSE {})

AllNodes ==
    Pipeline(create_pipeline) \cup Pipeline(create_red_wine_pipeline)
        \cup Pipeline(create_white_wine_pipeline)

NodeNames == Names(AllNodes)

DataSets == Inputs(AllNodes) \cup Outputs(AllNodes) \cup Catalog(3) \cup ParamDatasets(2)

\* The project as Subtask III leaves it, and no run yet. The red wines are
\* in data/01_raw since the introduction.
KedroInit ==
    /\ project = [pipelines |-> 3, hooks |-> 2, catalog |-> 2, parameters |-> 2]
    /\ session = "idle"
    /\ selected = "__default__"
    /\ parallel = FALSE
    /\ nodeState = [n \in NodeNames |-> "none"]
    /\ memory = {}
    /\ stored = {"wines-red"}
    /\ saves = [d \in DataSets |-> 0]
    /\ sessions = 0

\* The pipeline of the current run.
RunPipeline ==
    IF selected \in DOMAIN Registered(project) THEN Registered(project)[selected] ELSE {}

\* kedro run [--pipeline=<name>] [-p]: the pipelines are registered, the named
\* one is looked up and its free inputs must be in the catalog.
KedroRunStart(name, par) ==
    /\ session = "idle"
    /\ sessions < MaxSessions
    /\ sessions' = sessions + 1
    /\ selected' = name
    /\ parallel' = par
    /\ LET ok == /\ Registers(project)
                 /\ name \in DOMAIN Registered(project)
                 /\ FreeInputs(Registered(project)[name])
                        \subseteq Catalog(project.catalog) \cup ParamDatasets(project.parameters)
       IN  /\ session' = IF ok THEN "running" ELSE "failed"
           /\ nodeState' = [n \in NodeNames |->
                               IF ok /\ n \in Names(Registered(project)[name])
                               THEN "pending" ELSE "none"]
    /\ saves' = [d \in DataSets |-> 0]
    /\ UNCHANGED <<project, memory, stored>>

\* The runner takes a node whose producers are all done (one node at a time
\* unless -p was given) and loads its inputs; a dataset without data raises.
StartNode(n) ==
    /\ session = "running"
    /\ n \in RunPipeline
    /\ nodeState[n.name] = "pending"
    /\ parallel \/ \A m \in NodeNames : nodeState[m] # "running"
    /\ \A m \in Producers(RunPipeline, n) : nodeState[m.name] = "done"
    /\ LET loaded == n.inputs \subseteq
                        memory \cup stored \cup ParamDatasets(project.parameters)
       IN  /\ nodeState' = [nodeState EXCEPT ![n.name] =
                               IF loaded THEN "running" ELSE "failed"]
           /\ session' = IF loaded THEN session ELSE "failed"
    /\ UNCHANGED <<project, selected, parallel, memory, stored, saves, sessions>>

\* The node's function returns: its outputs are saved, to their files when the
\* catalog has them and to memory otherwise, and the memory datasets no node
\* is left to load are released.
FinishNode(n) ==
    /\ n \in RunPipeline
    /\ nodeState[n.name] = "running"
    /\ LET files2 == Catalog(project.catalog)
           state2 == [nodeState EXCEPT ![n.name] = "done"]
           released == {d \in n.inputs \ FreeInputs(RunPipeline) :
                           \A m \in RunPipeline : d \in m.inputs => state2[m.name] = "done"}
       IN  /\ nodeState' = state2
           /\ stored' = stored \cup (n.outputs \cap files2)
           /\ memory' = (memory \cup (n.outputs \ files2)) \ released
           /\ saves' = [d \in DataSets |-> IF d \in n.outputs THEN saves[d] + 1 ELSE saves[d]]
           /\ session' = IF session = "running"
                            /\ \A m \in RunPipeline : state2[m.name] = "done"
                         THEN "succeeded" ELSE session
    /\ UNCHANGED <<project, selected, parallel, sessions>>

\* The node's function raises (the download finds no network): the run fails
\* and starts no further node.
FailNode(n) ==
    /\ n \in RunPipeline
    /\ nodeState[n.name] = "running"
    /\ nodeState' = [nodeState EXCEPT ![n.name] = "failed"]
    /\ session' = "failed"
    /\ UNCHANGED <<project, selected, parallel, memory, stored, saves, sessions>>

\* The kedro process ends once no node is running; its memory is gone.
Close ==
    /\ session \in {"succeeded", "failed"}
    /\ \A m \in NodeNames : nodeState[m] # "running"
    /\ session' = "idle"
    /\ memory' = {}
    /\ UNCHANGED <<project, selected, parallel, nodeState, stored, saves, sessions>>

Init == ComposeInit /\ AirflowInit /\ NotebookInit /\ KedroInit

\* The compose project alone.
Next ==
    \/ \E s \in Services : Up(s) /\ UNCHANGED <<airflowVars, notebookVars, kedroVars>>
    \/ \E s \in Services : Down(s) /\ UNCHANGED <<airflowVars, notebookVars, kedroVars>>
    \/ DownVolumes /\ UNCHANGED <<airflowVars, notebookVars, kedroVars>>
    \/ \E s \in Services, p \in ContainerPaths, c \in 0..MaxContent :
          Write(s, p, c) /\ UNCHANGED <<airflowVars, notebookVars, kedroVars>>
    \/ \E f \in FileNames, c \in 0..MaxContent : HostWrite(f, c) /\ UNCHANGED <<airflowVars, notebookVars, kedroVars>>

Spec == Init /\ [][Next]_vars

\* The import of the DAG file and the DAG runs alone.
NextAirflow ==
    \/ ParseStatement /\ UNCHANGED <<composeVars, notebookVars, kedroVars>>
    \/ CreateFile /\ UNCHANGED <<composeVars, notebookVars, kedroVars>>
    \/ RemoveFile /\ UNCHANGED <<composeVars, notebookVars, kedroVars>>
    \/ \E t \in Tasks : Start(t) /\ UNCHANGED <<composeVars, notebookVars, kedroVars>>
    \/ \E t \in Tasks : Poke(t) /\ UNCHANGED <<composeVars, notebookVars, kedroVars>>
    \/ \E t \in Tasks : SensorTimeout(t) /\ UNCHANGED <<composeVars, notebookVars, kedroVars>>
    \/ \E t \in Tasks : Execute(t) /\ UNCHANGED <<composeVars, notebookVars, kedroVars>>
    \/ \E t \in Tasks : Raise(t) /\ UNCHANGED <<composeVars, notebookVars, kedroVars>>
    \/ \E t \in Tasks : MarkUpstreamFailed(t) /\ UNCHANGED <<composeVars, notebookVars, kedroVars>>
    \/ NextRun /\ UNCHANGED <<composeVars, notebookVars, kedroVars>>

SpecAirflow == Init /\ [][NextAirflow]_vars

\* A notebook run top to bottom alone.
NextNotebook ==
    \/ Mkdir /\ UNCHANGED <<composeVars, airflowVars, kedroVars>>
    \/ Cp /\ UNCHANGED <<composeVars, airflowVars, kedroVars>>
    \/ ChDir /\ UNCHANGED <<composeVars, airflowVars, kedroVars>>
    \/ WriteFile /\ UNCHANGED <<composeVars, airflowVars, kedroVars>>
    \/ KedroRunCmd /\ UNCHANGED <<composeVars, airflowVars, kedroVars>>
    \/ Noop /\ UNCHANGED <<composeVars, airflowVars, kedroVars>>
    \/ GitInit /\ UNCHANGED <<composeVars, airflowVars, kedroVars>>
    \/ Git /\ UNCHANGED <<composeVars, airflowVars, kedroVars>>
    \/ DvcInit /\ UNCHANGED <<composeVars, airflowVars, kedroVars>>
    \/ DvcAdd /\ UNCHANGED <<composeVars, airflowVars, kedroVars>>
    \/ DvcRemoteAdd /\ UNCHANGED <<composeVars, airflowVars, kedroVars>>
    \/ DvcStatusCloud /\ UNCHANGED <<composeVars, airflowVars, kedroVars>>
    \/ DvcPush /\ UNCHANGED <<composeVars, airflowVars, kedroVars>>
    \/ DvcRun /\ UNCHANGED <<composeVars, airflowVars, kedroVars>>
    \/ DvcDag /\ UNCHANGED <<composeVars, airflowVars, kedroVars>>
    \/ DvcStatus /\ UNCHANGED <<composeVars, airflowVars, kedroVars>>
    \/ DvcRepro /\ UNCHANGED <<composeVars, airflowVars, kedroVars>>
    \/ Sed /\ UNCHANGED <<composeVars, airflowVars, kedroVars>>
    \/ DvcGet /\ UNCHANGED <<composeVars, airflowVars, kedroVars>>
    \/ Rm /\ UNCHANGED <<composeVars, airflowVars, kedroVars>>
    \/ DvcImport /\ UNCHANGED <<composeVars, airflowVars, kedroVars>>
    \/ RmRf /\ UNCHANGED <<composeVars, airflowVars, kedroVars>>
    \/ Rerun /\ UNCHANGED <<composeVars, airflowVars, kedroVars>>

SpecNotebook == Init /\ [][NextNotebook]_vars

\* The runs of the Kedro project alone, for every state of its files.
InitKedro ==
    /\ ComposeInit /\ AirflowInit /\ NotebookInit
    /\ nb = "kedro" /\ ProjectDir("kedro") \in dirs
    /\ project \in KedroProjects
    /\ session = "idle"
    /\ selected = "__default__"
    /\ parallel = FALSE
    /\ nodeState = [n \in NodeNames |-> "none"]
    /\ memory = {}
    /\ stored = {"wines-red"}
    /\ saves = [d \in DataSets |-> 0]
    /\ sessions = 0

NextKedro ==
    \/ \E name \in {"__default__", "red", "white"}, par \in BOOLEAN :
          KedroRunStart(name, par) /\ UNCHANGED <<composeVars, airflowVars, notebookVars>>
    \/ \E n \in AllNodes : StartNode(n) /\ UNCHANGED <<composeVars, airflowVars, notebookVars>>
    \/ \E n \in AllNodes : FinishNode(n) /\ UNCHANGED <<composeVars, airflowVars, notebookVars>>
    \/ \E n \in AllNodes : FailNode(n) /\ UNCHANGED <<composeVars, airflowVars, notebookVars>>
    \/ Close /\ UNCHANGED <<composeVars, airflowVars, notebookVars>>

SpecKedro == InitKedro /\ [][NextKedro]_vars

(***************************************************************************)
(* Claims about the compose project                                        *)
(***************************************************************************)

\* C1: the compose file defines exactly the two services jupyter and airflow,
\* jupyter publishes host ports 8888, 4141, 5000, 7777 and airflow 8080, no
\* start fails on an allocated port, and two running containers never hold a
\* host port in common.
C1_NoSharedHostPort ==
    /\ Cardinality(Services) = 2
    /\ HostPorts("jupyter") = {8888, 4141, 5000, 7777}
    /\ HostPorts("airflow") = {8080}
    /\ \A s \in Services : container[s] # "failed"
    /\ \A s1, s2 \in Services :
          (s1 # s2 /\ container[s1] = "running" /\ container[s2] = "running")
              => HostPorts(s1) \cap HostPorts(s2) = {}

\* Both services are up at the same time.
C1_BothUp == \A s \in Services : container[s] = "running"

\* C2: at every path under /workshop/workspace both services read the same
\* file, whatever either of them has written.
C2_SharedWorkspace ==
    \A f \in FileNames :
        Read("jupyter", WorkspaceTarget \o <<f>>) = Read("airflow", WorkspaceTarget \o <<f>>)

\* The last write was by jupyter, both containers run, and airflow reads a
\* file under /workshop/workspace.
C2_AirflowReadsJupyterFile ==
    /\ lastWriter = "jupyter"
    /\ \A s \in Services : container[s] = "running"
    /\ \E f \in FileNames : Read("airflow", WorkspaceTarget \o <<f>>) # 0

\* C7: every DAG file of the repository's dags folder is, with the same
\* content, the file the airflow service has at $AIRFLOW_HOME/dags.
C7_DagsFolderServed ==
    \A f \in FileNames :
        Read("airflow", DagsFolder \o <<f>>) = store[[kind |-> "host", path |-> RepoDags \o <<f>>]]

\* The host has placed a DAG file and the running airflow container has it.
C7_DagFilePresent ==
    /\ lastWriter = "host"
    /\ container["airflow"] = "running"
    /\ \E f \in FileNames : Read("airflow", DagsFolder \o <<f>>) # 0

(***************************************************************************)
(* Claims about the Airflow examples                                       *)
(***************************************************************************)

\* C3: with fs_task >> python_task, the task "print" has not started in a
\* run unless "lookup_file" has finished (succeeded) in that run.
C3_SensorBeforePrint ==
    taskState[python_task] \in Started => taskState[fs_task] = "success"

\* "print" is running.
C3_PrintRuns == taskState[python_task] = "running" /\ taskState[fs_task] = "success"

\* The step in which the sensor finishes.
SensorFinishes == taskState[fs_task] # "success" /\ taskState'[fs_task] = "success"

\* C4 as stated: the sensor finishes only in a step where the file exists,
\* and "print" is never running while the file is absent.
C4_PrintNeverWithoutFile ==
    [][ /\ SensorFinishes => fileExists
        /\ taskState'[python_task] = "running" => fileExists' ]_vars

\* C4 as amended: the sensor finishes only in a step where the file exists,
\* and "print" has not started unless the sensor has finished in this run, so
\* not before the file has existed; the file may be gone when "print" runs.
C4_SensorNeedsFile ==
    [][ /\ SensorFinishes => fileExists
        /\ taskState'[python_task] \in Started =>
              (taskState'[fs_task] = "success" /\ fileSeen') ]_vars

\* The sensor has finished, "print" runs, and the file has been removed since.
C4_PrintAfterFileRemoved ==
    /\ taskState[fs_task] = "success"
    /\ taskState[python_task] = "running"
    /\ ~fileExists

\* C5: whatever bar has pulled in a run is the value foo returned, and task2
\* has not started in a run unless task1's value is in XCom for that run.
C5_PullsWhatTask1Returned ==
    /\ \A r \in Runs : pulled[r] \in {"nothing", foo}
    /\ taskState[task2] \in Started => <<run, task1, foo>> \in xcom

\* task2 has finished in the second run and has pulled "hello world" in it.
C5_Pulled ==
    /\ run = MaxRuns
    /\ taskState[task2] = "success"
    /\ pulled[run] = "hello world"

RECURSIVE ReachFrom(_, _, _)
\* The tasks reached from those of S along at most n more edges of E.
ReachFrom(E, S, n) ==
    IF n = 0 THEN S
    ELSE ReachFrom(E, S \cup {e[2] : e \in {x \in E : x[1] \in S}}, n - 1)

Descendants(E, t) ==
    ReachFrom(E, {e[2] : e \in {x \in E : x[1] = t}}, Cardinality(Tasks))

\* C6: the dependencies the DAG file declares contain no cycle, and the tasks
\* have an order in which every task comes after all its upstream tasks.
C6_Acyclic ==
    /\ \A t \in Tasks : t \notin Descendants(edges, t)
    /\ \E pos \in [Tasks -> 1..Cardinality(Tasks)] :
          /\ \A t, u \in Tasks : t # u => pos[t] # pos[u]
          /\ \A e \in edges : pos[e[1]] < pos[e[2]]

\* Both dependencies are declared and a run has executed all four tasks.
C6_AllExecuted ==
    /\ edges = {<<fs_task, python_task>>, <<task1, task2>>}
    /\ \A t \in Tasks : taskState[t] = "success"

(***************************************************************************)
(* Claims about the notebooks                                              *)
(***************************************************************************)

IndexOf(n, line) == CHOOSE i \in 1..Len(Script(n)) : Script(n)[i].line = line

\* The command on that line of notebook n is the last one that has run.
After(n, line) == nb = n /\ ~halted /\ pc = IndexOf(n, line) + 1

\* Command i comes after a dvc push with nothing but git commands between.
FollowsPush(n, i) ==
    \E j \in 1..(i - 1) :
        /\ Script(n)[j].kind = "push"
        /\ \A k \in (j + 1)..(i - 1) : Script(n)[k].kind \in {"git", "noop"}

\* C8: when a dvc push of either notebook has run, it has succeeded and every
\* object of the cache is in the default remote; when the dvc status -c that
\* follows a push has run, it has reported nothing to push.
C8_PushSyncsCache ==
    \A i \in 1..Len(Script(nb)) :
        (~halted /\ pc = i + 1) =>
            /\ Script(nb)[i].kind = "push" => (report.ok /\ cache \subseteq remoteStore)
            /\ (Script(nb)[i].kind = "status_c" /\ FollowsPush(nb, i)) =>
                  (report.ok /\ report.statusC = {})

\* The dvc status -c after the push of the pipeline's outputs has run.
C8_StatusAfterPush ==
    \E i \in 1..Len(Script(nb)) :
        /\ ~halted /\ pc = i + 1
        /\ Script(nb)[i].kind = "status_c" /\ FollowsPush(nb, i)
        /\ Cardinality(cache) > 1
        /\ cache \subseteq remoteStore

\* C9: when the DVC notebook comes to "Let's modify a file and reproduce our
\* pipeline!" a dependency of a stage differs from dvc.lock, the dvc status
\* that follows reports a changed stage and the dvc repro that follows runs
\* a stage again.
C9_ModifiedBeforeRepro ==
    /\ After("dvc", 298) => \E s \in Stages : Changed(files, lock, s)
    /\ After("dvc", 314) => (report.ok /\ report.status # {})
    /\ After("dvc", 323) => (report.ok /\ report.repro # {})

\* C10: the Kedro exercise begins with the change into the project directory,
\* and once a later command has run, or is the next to run, that directory
\* exists and is the working directory.
C10_ProjectDirExists ==
    /\ KedroScript[1].kind = "chdir" /\ KedroScript[1].arg = ProjectDir("kedro")
    /\ (nb = "kedro" /\ pc > 1) =>
          (ProjectDir("kedro") \in dirs /\ cwd = ProjectDir("kedro"))

\* The exercise is past its first kedro run.
C10_LaterCommandRan == nb = "kedro" /\ ~halted /\ pc > IndexOf("kedro", 265)

\* The git commands other than git init, and the dvc commands other than dvc
\* init, among the commands of the notebooks.
IsGit(c) == c.kind = "git" \/ (c.kind = "noop" /\ c.arg = "git config")

IsDvc(c) ==
    \/ c.kind \in {"dvc_add", "remote_add", "status_c", "push", "run", "dag",
                    "status", "repro", "get", "import"}
    \/ (c.kind = "noop" /\ c.arg = "dvc metrics diff")

\* The stages the dvc run commands of a notebook create.
StagesOf(n) == {Script(n)[i].arg : i \in {j \in 1..Len(Script(n)) : Script(n)[j].kind = "run"}}

\* C12: in both notebooks git init comes before every other git command and
\* dvc init before every other dvc command, dvc remote add -d before the
\* first dvc push, and every dvc run before dvc dag and dvc repro; and in a
\* run from top to bottom a git command is never the next to run without
\* the project's git repository, a dvc command never without its .dvc
\* directory, dvc push never without a default remote, and dvc dag and dvc
\* repro never without every stage of the notebook in dvc.lock.
C12_PredecessorsEstablished ==
    /\ \A n \in Notebooks : \A i \in 1..Len(Script(n)) :
          LET c == Script(n)[i]
              Before(kind) == \E j \in 1..(i - 1) : Script(n)[j].kind = kind
          IN  /\ IsGit(c) \/ c.kind = "dvc_init" => Before("git_init")
              /\ IsDvc(c) => Before("dvc_init")
              /\ c.kind = "push" => Before("remote_add")
              /\ c.kind \in {"dag", "repro"} =>
                    \A k \in 1..Len(Script(n)) : Script(n)[k].kind = "run" => k < i
    /\ Running =>
          /\ IsGit(Cmd) \/ Cmd.kind = "dvc_init" => (InProject /\ repo.git)
          /\ IsDvc(Cmd) => (InProject /\ repo.git /\ repo.dvc)
          /\ Cmd.kind = "push" => repo.remote
          /\ Cmd.kind \in {"dag", "repro"} => \A s \in StagesOf(nb) : lock[s].present

\* The DVC notebook has run its first dvc repro, its four stages in dvc.lock.
C12_ReproRan ==
    /\ After("dvc", 323)
    /\ repo.git /\ repo.dvc /\ repo.remote
    /\ StagesOf("dvc") = {"download", "split", "train", "evaluate"}
    /\ \A s \in StagesOf("dvc") : lock[s].present

(***************************************************************************)
(* Claims about the Kedro project                                          *)
(***************************************************************************)

\* The nodes of a run that have been taken up: running, done or failed.
Executed == {n \in NodeNames : nodeState[n] \in {"running", "done", "failed"}}

\* C11: register_pipelines registers exactly the names red, white and
\* __default__; __default__ has exactly the nodes of red and those of white,
\* seven in all; a run of the project that selects one registered name takes
\* up only the nodes of that pipeline, and when it succeeds all of them are
\* done: the three of red, the four of white, or the seven of the default.
C11_RegisteredPipelines ==
    /\ DOMAIN register_pipelines = {"red", "white", "__default__"}
    /\ Names(register_pipelines["__default__"]) =
          Names(Pipeline(create_red_wine_pipeline))
              \cup Names(Pipeline(create_white_wine_pipeline))
    /\ Cardinality(register_pipelines["__default__"]) = 7
    /\ (project.hooks = 2 /\ selected = "red") =>
          /\ Executed \subseteq Names(Pipeline(create_red_wine_pipeline))
          /\ session = "succeeded" =>
                \A n \in Names(Pipeline(create_red_wine_pipeline)) : nodeState[n] = "done"
    /\ (project.hooks = 2 /\ selected = "white") =>
          /\ Executed \subseteq Names(Pipeline(create_white_wine_pipeline))
          /\ session = "succeeded" =>
                \A n \in Names(Pipeline(create_white_wine_pipeline)) : nodeState[n] = "done"
    /\ (project.hooks = 2 /\ selected = "__default__" /\ session = "succeeded") =>
          Cardinality({n \in NodeNames : nodeState[n] = "done"}) = 7

\* A run of the pipeline red has succeeded.
C11_RedRunSucceeded ==
    /\ project.hooks = 2 /\ selected = "red" /\ session = "succeeded"
    /\ Cardinality(Executed) = 3

\* The node has been taken up only once the other one was done.
Ordered(first, then) == then \in Executed => nodeState[first] = "done"

\* C14: in every run of the project with both pipelines, sequential or with
\* -p, splitting_red_wine_data is done before training_red_wine_model is
\* taken up, and that before evaluating_red_wine_model; likewise download,
\* splitting, training, evaluating of the white wines; every node taken up
\* has each input from the catalog, from the parameters, or from a node of
\* the run that is done, and while it runs every input has its data.
C14_InputsBeforeNodes ==
    /\ project.hooks = 2 =>
          /\ Ordered("splitting_red_wine_data", "training_red_wine_model")
          /\ Ordered("training_red_wine_model", "evaluating_red_wine_model")
          /\ Ordered("download_white_wine_data", "splitting_white_wine_data")
          /\ Ordered("splitting_white_wine_data", "training_white_wine_model")
          /\ Ordered("training_white_wine_model", "evaluating_white_wine_model")
    /\ \A n \in RunPipeline : n.name \in Executed =>
          \A d \in n.inputs :
              \/ d \in Catalog(project.catalog) \cup ParamDatasets(project.parameters)
              \/ \E m \in RunPipeline : d \in m.outputs /\ nodeState[m.name] = "done"
    /\ \A n \in RunPipeline : nodeState[n.name] = "running" =>
          n.inputs \subseteq memory \cup stored \cup ParamDatasets(project.parameters)

\* A run of the default pipeline with -p has succeeded, all seven nodes done.
C14_ParallelRunSucceeded ==
    /\ project.hooks = 2 /\ selected = "__default__" /\ parallel
    /\ session = "succeeded"
    /\ \A n \in Names(register_pipelines["__default__"]) : nodeState[n] = "done"

\* The datasets a pipeline reads or writes.
DataSetsOf(p) == Inputs(p) \cup Outputs(p)

\* C15: in red_wine_pipeline + white_wine_pipeline no two nodes have the same
\* name and no two nodes have an output in common; the only dataset both
\* red_wine_pipeline and white_wine_pipeline read or write is parameters;
\* and no run saves a dataset twice.
C15_DistinctNamesAndOutputs ==
    /\ \A a, b \in register_pipelines["__default__"] :
          a # b => (a.name # b.name /\ a.outputs \cap b.outputs = {})
    /\ \A i \in 1..Len(create_red_wine_pipeline), j \in 1..Len(create_white_wine_pipeline) :
          create_red_wine_pipeline[i].name # create_white_wine_pipeline[j].name
    /\ DataSetsOf(register_pipelines["red"]) \cap DataSetsOf(register_pipelines["white"])
          = {"parameters"}
    /\ \A d \in DataSets : saves[d] <= 1

\* A sequential run of the default pipeline has succeeded and has saved the
\* model of each pipeline once.
C15_BothModelsSaved ==
    /\ project.hooks = 2 /\ selected = "__default__" /\ ~parallel
    /\ session = "succeeded"
    /\ saves["model_red"] = 1 /\ saves["model_white"] = 1

====
